---- MODULE Spec2Model ----
(***************************************************************************)
(* Provisioning core of the curve-operator chunkserver controller:         *)
(*   - k8sutil.RunReplaceableJob / DeleteBatchJob / CheckJobStatus          *)
(*     (src/pkg/k8sutil/job.go)                                             *)
(*   - chunkserver.Cluster.Start (src/pkg/k8sutil/job.go, second package)   *)
(*   - chunkserver.startProvisioningOverNodes / runPrepareJob               *)
(*     (src/unnamed/part_000)                                               *)
(* The Kubernetes API server is the environment: every API call is one     *)
(* step, and the job controller and the garbage collector act between the  *)
(* steps.                                                                  *)
(***************************************************************************)
EXTENDS Integers, Sequences, FiniteSets, TLC

VARIABLES
    store,          \* the batch Job object stored under the name in use
    fn,             \* the k8sutil / planner function being executed
    deleteIfFound,  \* RunReplaceableJob's parameter
    wait,           \* DeleteBatchJob's parameter
    jpc,            \* position inside the executing function
    lookupErr,      \* err of the first Get (job.go:20, part_000:204)
    existingJob,    \* existingJob of the first Get
    i,              \* DeleteBatchJob's loop index (job.go:65)
    polls,          \* Get calls issued by DeleteBatchJob's wait loop
    sleeps,         \* time.Sleep calls made by DeleteBatchJob
    elapsed,        \* seconds slept by DeleteBatchJob
    lastPoll,       \* err of the last Get of the wait loop
    deleteErr,      \* err of the Delete call (job.go:50)
    issued,         \* the mutating calls (delete, create) sent to the store, in order
    retErr,         \* the error the function returned
    retJob,         \* the *batch.Job runPrepareJob returned
    createErr,      \* err of the Create call (job.go:41, part_000:216)
    \* ---- CheckJobStatus (job.go:81-106) and its channel, ticker, context
    wpc,            \* position of the watcher goroutine
    chn,            \* chn, a buffered channel of capacity 1 (job.go:193)
    ctxDone,        \* ctx.Done() is closed
    tick,           \* a tick waits in ticker.C
    wval,           \* the value the watcher is about to send
    sent,           \* the values the watcher has written to chn, in order
    \* ---- startProvisioningOverNodes (part_000:40-168)
    loopVarPerIteration, \* Go language version of the build: range variables
                    \* are per iteration (go >= 1.22) or per loop (before)
    ppc,            \* position inside the planner
    validNodes,     \* validNodes (part_000:57)
    nodeIdx,        \* index of the outer range loop (part_000:104)
    devIdx,         \* index of the inner range loop (part_000:110)
    hostSequence,   \* part_000:102
    replicasSequence, \* part_000:107
    portBase,       \* part_000:106
    job2DeviceInfos,    \* part_000:36
    chunkserverConfigs, \* part_000:37
    cells,          \* the range variables "device" that &device points to
    planErr,        \* the error startProvisioningOverNodes returned
    appended,       \* records appended by the planner in the current Start
    attempts,       \* the runPrepareJob calls of the current Start: pair and outcome
    \* ---- Cluster.Start (job.go:169-232)
    opc,            \* position inside Start
    storage,        \* c.spec.Storage
    conditions,     \* the UpdateCondition calls made, in order
    invoked,        \* the stages' collaborators invoked, in order, with their outcome
    startErr,       \* the error Start returned
    runs,           \* Start calls made in this process
    storeCalled     \* the current Start has called the API server

jobVars == <<store, fn, deleteIfFound, wait, jpc, lookupErr, existingJob, i,
             polls, sleeps, elapsed, lastPoll, deleteErr, issued, retErr, retJob,
             createErr>>

watchVars == <<wpc, chn, ctxDone, tick, wval, sent>>

planVars == <<ppc, validNodes, nodeIdx, devIdx, hostSequence, replicasSequence,
              portBase, job2DeviceInfos, chunkserverConfigs, cells, planErr,
              appended, attempts>>

startVars == <<opc, storage, conditions, invoked, startErr, runs, storeCalled>>

vars == <<jobVars, watchVars, loopVarPerIteration, planVars, startVars>>

----------------------------------------------------------------------------
(* The store: one Job object per name, batch/v1 JobStatus counters.        *)

Absent == [exists |-> FALSE, active |-> 0, succeeded |-> 0, terminating |-> FALSE]

NewJob == [exists |-> TRUE, active |-> 0, succeeded |-> 0, terminating |-> FALSE]

JobObjects ==
    {Absent} \cup
    { [exists |-> TRUE, active |-> st[1], succeeded |-> st[2], terminating |-> t] :
        st \in {<<0, 0>>, <<1, 0>>, <<0, 1>>}, t \in BOOLEAN }

\* clientset.BatchV1().Jobs(ns).Get: the object, NotFound, or another failure
GetResults(obj) ==
    {[err |-> "Other", job |-> Absent]} \cup
    (IF obj.exists THEN {[err |-> "nil", job |-> obj]}
                   ELSE {[err |-> "NotFound", job |-> Absent]})

\* clientset.BatchV1().Jobs(ns).Delete with foreground propagation: the object
\* stays, marked for deletion, until its dependents are gone
DeleteResults(obj) ==
    {[err |-> "Other", obj |-> obj]} \cup
    (IF obj.exists THEN {[err |-> "nil", obj |-> [obj EXCEPT !.terminating = TRUE]]}
                   ELSE {[err |-> "NotFound", obj |-> obj]})

\* clientset.BatchV1().Jobs(ns).Create: names are unique in a namespace
CreateResults(obj) ==
    {[err |-> "Other", obj |-> obj]} \cup
    (IF obj.exists THEN {[err |-> "AlreadyExists", obj |-> obj]}
                   ELSE {[err |-> "nil", obj |-> NewJob]})

----------------------------------------------------------------------------
(* Conditions and constants of job.go                                      *)

retries == 30

sleepInterval == 3

IsNotFound(err) == err = "NotFound"

\* job.go:54  the error DeleteBatchJob makes of a failed delete
RemoveFailed == "failed to remove previous provisioning job"

\* (job.go:27 with the negation of deleteIfFound lost)
KeepExistingMut(job, force) == job.active > 0 /\ force

\* job.go:27  existingJob.Status.Active > 0 && !deleteIfFound
KeepExisting(job, force) == job.active > 0 /\ ~force

\* part_000:209  existingJob.Status.Active > 0
StillRunning(job) == job.active > 0

\* (job.go:65 off by one)
LoopContinuesMut(k) == k <= retries

\* job.go:65  i < retries
LoopContinues(k) == k < retries

\* (job.go:67 without the IsNotFound test)
PollSaysDeletedMut(err) == err /= "nil"

\* job.go:67  err != nil && errors.IsNotFound(err)
PollSaysDeleted(err) == err /= "nil" /\ IsNotFound(err)

\* (job.go:34-41 returning after the delete, the create left out)
AfterRemoveMut(err) == IF err /= "nil" THEN "return_wrapped" ELSE "return_nil"

\* (job.go:35-37 without the error check: the create follows a failed delete)
AfterRemoveUncheckedMut(err) == "rrj_create"

\* job.go:34-41  what RunReplaceableJob does with DeleteBatchJob's error
AfterRemove(err) == IF err /= "nil" THEN "return_wrapped" ELSE "rrj_create"

\* (job.go:21-23 returning the lookup's error)
AfterLookupErrorMut(err) == "return"

\* job.go:21-23, part_000:205-207  a lookup error other than not found is
\* logged and the call goes on to the create
AfterLookupError(err) == "create"

----------------------------------------------------------------------------
(* One call of a k8sutil function                                          *)

Functions == {"RunReplaceableJob", "DeleteBatchJob", "runPrepareJob"}

\* the caller invokes fn; locals are fresh
Call(f, force, w) ==
    /\ jpc = "idle"
    /\ fn' = f
    /\ deleteIfFound' = force
    /\ wait' = w
    /\ jpc' = CASE f = "RunReplaceableJob" -> "rrj_get"
                [] f = "DeleteBatchJob"    -> "dbj_delete"
                [] f = "runPrepareJob"     -> "rpj_get"
    /\ lookupErr' = "none"
    /\ existingJob' = Absent
    /\ i' = 0 /\ polls' = 0 /\ sleeps' = 0 /\ elapsed' = 0
    /\ lastPoll' = "none"
    /\ deleteErr' = "none"
    /\ issued' = <<>>
    /\ retErr' = "none"
    /\ retJob' = Absent
    /\ createErr' = "none"

\* the function has returned to its caller: its locals are gone
FrameGone ==
    /\ jpc' = "idle"
    /\ fn' = "none"
    /\ deleteIfFound' = FALSE
    /\ wait' = FALSE
    /\ lookupErr' = "none"
    /\ existingJob' = Absent
    /\ i' = 0 /\ polls' = 0 /\ sleeps' = 0 /\ elapsed' = 0
    /\ lastPoll' = "none"
    /\ deleteErr' = "none"
    /\ issued' = <<>>
    /\ retErr' = "none"
    /\ retJob' = Absent
    /\ createErr' = "none"

\* DeleteBatchJob returns err: to its caller RunReplaceableJob (job.go:34-38)
\* or to the outside
DeleteReturns(err) ==
    IF fn = "DeleteBatchJob"
    THEN /\ jpc' = "returned"
         /\ retErr' = err
    ELSE LET next == AfterRemove(err) IN
         IF next = "rrj_create"
         THEN /\ jpc' = "rrj_create"
              /\ UNCHANGED retErr
         ELSE /\ jpc' = "returned"
              /\ retErr' = IF next = "return_nil" THEN "nil" ELSE "failed to remove job"

\* job.go:20-38  Get, then keep the running job, or go on to delete or create
RRJ_Get ==
    /\ jpc = "rrj_get"
    /\ \E r \in GetResults(store) :
        /\ lookupErr' = r.err
        /\ existingJob' = r.job
        /\ IF r.err /= "nil" /\ ~IsNotFound(r.err)
           THEN IF AfterLookupError(r.err) = "create"
                THEN jpc' = "rrj_create" /\ UNCHANGED retErr
                ELSE jpc' = "returned" /\ retErr' = r.err
           ELSE IF r.err = "nil"
                THEN IF KeepExisting(r.job, deleteIfFound)
                     THEN jpc' = "returned" /\ retErr' = "nil"
                     ELSE jpc' = "dbj_delete" /\ UNCHANGED retErr
                ELSE jpc' = "rrj_create" /\ UNCHANGED retErr   \* not found
    /\ wait' = TRUE                                            \* job.go:34
    /\ UNCHANGED <<store, fn, deleteIfFound, i, polls, sleeps, elapsed,
                   lastPoll, deleteErr, issued, retJob>>
    /\ UNCHANGED createErr

\* job.go:50-59  the delete call
DBJ_Delete ==
    /\ jpc = "dbj_delete"
    /\ \E r \in DeleteResults(store) :
        /\ store' = r.obj
        /\ deleteErr' = r.err
        /\ issued' = Append(issued, "delete")
        /\ IF r.err /= "nil"
           THEN IF IsNotFound(r.err) THEN DeleteReturns("nil")
                                     ELSE DeleteReturns(RemoveFailed)
           ELSE IF ~wait THEN DeleteReturns("nil")
                ELSE IF LoopContinues(0)
                     THEN jpc' = "dbj_poll" /\ UNCHANGED retErr
                     ELSE DeleteReturns("nil")
    /\ i' = 0
    /\ UNCHANGED <<fn, deleteIfFound, wait, lookupErr, existingJob, polls,
                   sleeps, elapsed, lastPoll, retJob>>
    /\ UNCHANGED createErr

\* job.go:66-72  one existence poll
DBJ_Poll ==
    /\ jpc = "dbj_poll"
    /\ \E r \in GetResults(store) :
        /\ lastPoll' = r.err
        /\ polls' = polls + 1
        /\ IF PollSaysDeleted(r.err)
           THEN DeleteReturns("nil")
           ELSE jpc' = "dbj_sleep" /\ UNCHANGED retErr
    /\ UNCHANGED <<store, fn, deleteIfFound, wait, lookupErr, existingJob, i,
                   sleeps, elapsed, deleteErr, issued, retJob>>
    /\ UNCHANGED createErr

\* job.go:73, 65, 76-77  sleep, i++, loop test, give up
DBJ_Sleep ==
    /\ jpc = "dbj_sleep"
    /\ sleeps' = sleeps + 1
    /\ elapsed' = elapsed + sleepInterval
    /\ i' = i + 1
    /\ IF LoopContinues(i + 1)
       THEN jpc' = "dbj_poll" /\ UNCHANGED retErr
       ELSE DeleteReturns("nil")
    /\ UNCHANGED <<store, fn, deleteIfFound, wait, lookupErr, existingJob,
                   polls, lastPoll, deleteErr, issued, retJob>>
    /\ UNCHANGED createErr

\* job.go:41-42  always create new job
RRJ_Create ==
    /\ jpc = "rrj_create"
    /\ \E r \in CreateResults(store) :
        /\ store' = r.obj
        /\ createErr' = r.err
        /\ retErr' = r.err
    /\ issued' = Append(issued, "create")
    /\ jpc' = "returned"
    /\ UNCHANGED <<fn, deleteIfFound, wait, lookupErr, existingJob, i, polls,
                   sleeps, elapsed, lastPoll, deleteErr, retJob>>

\* part_000:204-213  Get; a running job is returned as it is
RPJ_Get ==
    /\ jpc = "rpj_get"
    /\ \E r \in GetResults(store) :
        /\ lookupErr' = r.err
        /\ existingJob' = r.job
        /\ IF r.err /= "nil" /\ ~IsNotFound(r.err)
           THEN IF AfterLookupError(r.err) = "create"
                THEN jpc' = "rpj_create" /\ UNCHANGED <<retErr, retJob>>
                ELSE jpc' = "returned" /\ retErr' = r.err /\ UNCHANGED retJob
           ELSE IF r.err = "nil" /\ StillRunning(r.job)
                THEN jpc' = "returned" /\ retErr' = "nil" /\ retJob' = r.job
                ELSE jpc' = "rpj_create" /\ UNCHANGED <<retErr, retJob>>
    /\ UNCHANGED <<store, fn, deleteIfFound, wait, i, polls, sleeps, elapsed,
                   lastPoll, deleteErr, issued>>
    /\ UNCHANGED createErr

\* part_000:216-218  create, return (job, err)
RPJ_Create ==
    /\ jpc = "rpj_create"
    /\ \E r \in CreateResults(store) :
        /\ store' = r.obj
        /\ createErr' = r.err
        /\ retErr' = r.err
    /\ retJob' = NewJob
    /\ issued' = Append(issued, "create")
    /\ jpc' = "returned"
    /\ UNCHANGED <<fn, deleteIfFound, wait, lookupErr, existingJob, i, polls,
                   sleeps, elapsed, lastPoll, deleteErr>>

\* the caller takes the result; the function can be called again
CallDone ==
    /\ jpc = "returned"
    /\ jpc' = "idle"
    /\ UNCHANGED <<store, fn, deleteIfFound, wait, lookupErr, existingJob, i,
                   polls, sleeps, elapsed, lastPoll, deleteErr, issued, retErr, retJob>>
    /\ UNCHANGED createErr

----------------------------------------------------------------------------
(* The cluster acting on the stored Job                                    *)

\* the job controller starts the job's pod
JobStarts ==
    /\ store.exists /\ ~store.terminating
    /\ store.active = 0 /\ store.succeeded = 0
    /\ store' = [store EXCEPT !.active = 1]
    /\ UNCHANGED <<fn, deleteIfFound, wait, jpc, lookupErr, existingJob, i,
                   polls, sleeps, elapsed, lastPoll, deleteErr, issued, retErr, retJob>>
    /\ UNCHANGED createErr

\* the pod ends: succeeded, or failed for good
JobEnds ==
    /\ store.exists /\ store.active = 1
    /\ \E s \in 0..1 : store' = [store EXCEPT !.active = 0, !.succeeded = s]
    /\ UNCHANGED <<fn, deleteIfFound, wait, jpc, lookupErr, existingJob, i,
                   polls, sleeps, elapsed, lastPoll, deleteErr, issued, retErr, retJob>>
    /\ UNCHANGED createErr

\* the garbage collector removes a job marked for deletion
TeardownCompletes ==
    /\ store.exists /\ store.terminating
    /\ store' = Absent
    /\ UNCHANGED <<fn, deleteIfFound, wait, jpc, lookupErr, existingJob, i,
                   polls, sleeps, elapsed, lastPoll, deleteErr, issued, retErr, retJob>>
    /\ UNCHANGED createErr

ClusterStep == JobStarts \/ JobEnds \/ TeardownCompletes

----------------------------------------------------------------------------
(* Strings are sequences of characters; a fixed prefix is one symbol.      *)

Str(sym) == <<sym>>

\* strings.TrimSpace
RECURSIVE TrimSpace(_)
TrimSpace(s) ==
    IF s = <<>> THEN s
    ELSE IF Head(s) = " " THEN TrimSpace(Tail(s))
    ELSE IF s[Len(s)] = " " THEN TrimSpace(SubSeq(s, 1, Len(s) - 1))
    ELSE s

\* strings.TrimRight(name, "/")
RECURSIVE TrimRightSlash(_)
TrimRightSlash(s) ==
    IF s /= <<>> /\ s[Len(s)] = "/" THEN TrimRightSlash(SubSeq(s, 1, Len(s) - 1))
    ELSE s

\* nameArr := strings.Split(name, "/"); nameArr[len(nameArr)-1]
RECURSIVE LastSegment(_)
LastSegment(s) ==
    IF \E k \in 1..Len(s) : s[k] = "/"
    THEN LastSegment(Tail(s))
    ELSE s

\* part_000:111-114 and 224-227
ShortDeviceName(deviceName) == LastSegment(TrimRightSlash(TrimSpace(deviceName)))

AppName == Str("curve-chunkserver")
ConfigMapNamePrefix == Str("curve-chunkserver-conf")
PrepareJobName == Str("prepare-chunkfile")

\* fmt.Sprintf("%s-%s-%s", prefix, node.Name, name)
DashJoin(prefix, nodeName, name) == prefix \o <<"-">> \o nodeName \o <<"-">> \o name

\* part_000:229  jobName := PrepareJobName + "-" + nodeName + "-" + name
JobName(nodeName, deviceName) ==
    DashJoin(PrepareJobName, nodeName, ShortDeviceName(deviceName))

----------------------------------------------------------------------------
(* Inputs                                                                  *)

MaxNodes == 2
MaxDevices == 2
MaxRuns == 2

\* the cluster specs of the runs whose barrier is followed to its end
MaxBarrierNodes == 1
MaxBarrierDevices == 1

AllNodes == << <<"a">>, <<"b">>, <<"c">>, <<"d">> >>

AllDevices == << <<"/", "d", "/", "x">>, <<"/", "m", "/", "x">>,
                 <<"/", "d", "/", "y">>, <<"/", "d", "/", "z", "/">> >>

\* c.spec.Storage.Port
StoragePort == 8200

\* no Cluster has been built
NoStorage == [UseSelectedNodes |-> FALSE, Nodes |-> <<>>, Devices |-> <<>>,
              SelectedNodes |-> <<>>, Port |-> StoragePort]

Prefixes(seq, n) == { SubSeq(seq, 1, k) : k \in 0..n }

\* the cluster specs a Cluster can be built with: nodes and devices listed
\* (useSelectedNodes false), or nodes selected beforehand
StoragesUpTo(maxNodes, maxDevices) ==
    { [UseSelectedNodes |-> FALSE, Nodes |-> ns, Devices |-> ds,
       SelectedNodes |-> <<>>, Port |-> StoragePort] :
        ns \in Prefixes(AllNodes, maxNodes), ds \in Prefixes(AllDevices, maxDevices) }
    \cup
    { [UseSelectedNodes |-> TRUE, Nodes |-> <<>>, Devices |-> <<>>,
       SelectedNodes |-> sn, Port |-> StoragePort] :
        sn \in Prefixes(AllNodes, 1) }

Storages == StoragesUpTo(MaxNodes, MaxDevices)

BarrierStorages == StoragesUpTo(MaxBarrierNodes, MaxBarrierDevices)

\* k8sutil.GetValidNodes: the ready, schedulable ones among the nodes, in order
RECURSIVE SubSeqs(_)
SubSeqs(seq) ==
    IF seq = <<>> THEN {<<>>}
    ELSE LET rest == SubSeqs(Tail(seq)) IN
         rest \cup { <<Head(seq)>> \o r : r \in rest }

----------------------------------------------------------------------------
(* CheckJobStatus: the watcher goroutine                                   *)

\* job.go:87-99  what the watcher does with the fetched status
WatchDecision(r) ==
    IF r.err /= "nil" THEN "emit_false"
    ELSE IF r.job.succeeded > 0 THEN "emit_true"
    ELSE "continue"

\* (the one job in the store is watched even when the run has no task)
AggregateDecisionMut(r) == WatchDecision(r)

\* Cluster.checkJobStatus watches the tasks of job2DeviceInfos as one
\* aggregate: without any task the required completions are reached, and
\* nothing is fetched that could fail
AggregateDecision(r) ==
    IF Len(job2DeviceInfos) = 0 THEN "emit_true" ELSE WatchDecision(r)

\* chn := make(chan bool, 1)
ChanCap == 1

\* (job.go:90-97 with the return after the send left out)
AfterEmitMut(branch) == IF branch = "tick" THEN "select" ELSE "done"

\* job.go:90-91, 96-97, 101-103  the send is followed by return
AfterEmit(branch) == "done"

\* job.go:84-99  case <-ticker.C
W_Tick ==
    /\ wpc = "select"
    /\ tick
    /\ tick' = FALSE
    /\ \E r \in GetResults(store) :
        LET d == AggregateDecision(r) IN
        IF d = "continue"
        THEN UNCHANGED <<wpc, wval>>
        ELSE /\ wpc' = "send_tick"
             /\ wval' = (d = "emit_true")
    /\ UNCHANGED <<chn, ctxDone, sent>>
    /\ UNCHANGED <<jobVars, loopVarPerIteration, planVars, startVars>>

\* (job.go:100-104 with the case <-ctx.Done() doing nothing)
W_DoneMut ==
    /\ wpc = "select"
    /\ ctxDone
    /\ UNCHANGED vars

\* job.go:100-101  case <-ctx.Done()
W_Done ==
    /\ wpc = "select"
    /\ ctxDone
    /\ wpc' = "send_done"
    /\ wval' = FALSE
    /\ UNCHANGED <<chn, ctxDone, tick, sent>>
    /\ UNCHANGED <<jobVars, loopVarPerIteration, planVars, startVars>>

\* chn <- v: blocks while the buffer is full; then return
W_Send ==
    /\ wpc \in {"send_tick", "send_done"}
    /\ Len(chn) < ChanCap
    /\ chn' = Append(chn, wval)
    /\ sent' = Append(sent, wval)
    /\ wpc' = AfterEmit(IF wpc = "send_tick" THEN "tick" ELSE "done")
    /\ UNCHANGED <<ctxDone, tick, wval>>
    /\ UNCHANGED <<jobVars, loopVarPerIteration, planVars, startVars>>

\* the ticker fires (job.go:190) while the watcher runs; ticker.C holds one
\* tick, further ones are dropped
Tick ==
    /\ wpc \in {"select", "send_tick", "send_done"}
    /\ ~tick
    /\ tick' = TRUE
    /\ UNCHANGED <<wpc, chn, ctxDone, wval, sent>>
    /\ UNCHANGED <<jobVars, loopVarPerIteration, planVars, startVars>>

\* the deadline of context.WithTimeout passes (job.go:194) while the watcher runs
DeadlineFires ==
    /\ wpc \in {"select", "send_tick", "send_done"}
    /\ ~ctxDone
    /\ ctxDone' = TRUE
    /\ UNCHANGED <<wpc, chn, tick, wval, sent>>
    /\ UNCHANGED <<jobVars, loopVarPerIteration, planVars, startVars>>

----------------------------------------------------------------------------
(* startProvisioningOverNodes: the planner                                 *)

\* the range variable that &device points to (part_000:110, 128)
DeviceCell(n, d) == IF loopVarPerIteration THEN <<n, d>> ELSE <<n, 0>>

\* part_000:104, 110  the range loops: next (node, device) or the end
PlanAdvance(n, d) ==
    IF d < Len(storage.Devices) THEN [n |-> n, d |-> d + 1, newNode |-> FALSE]
    ELSE [n |-> n + 1, d |-> 1, newNode |-> TRUE]

\* part_000:58  len(validNodes) == 0
NoValidNodes(valid) == Len(valid) = 0

\* part_000:41-107  up to the first iteration
P_Begin ==
    /\ opc = "provisioning" /\ ppc = "begin"
    /\ IF storage.UseSelectedNodes
       THEN /\ ppc' = "returned" /\ planErr' = "nil"
            /\ UNCHANGED <<validNodes, nodeIdx, devIdx, hostSequence,
                           replicasSequence, portBase, job2DeviceInfos,
                           chunkserverConfigs, cells>>
       ELSE /\ job2DeviceInfos' = <<>>
            /\ chunkserverConfigs' = <<>>
            /\ cells' = <<>>
            /\ \E outcome \in {"hostnames failed", "ok", "format ConfigMap failed",
                               "etcd ConfigMap failed", "mds ConfigMap failed"},
                  valid \in SubSeqs(storage.Nodes) :
                IF outcome = "hostnames failed"
                THEN /\ ppc' = "returned"
                     /\ planErr' = "failed to get node hostnames"
                     /\ UNCHANGED <<validNodes, nodeIdx, devIdx, hostSequence,
                                    replicasSequence, portBase>>
                ELSE /\ validNodes' = valid
                     /\ IF NoValidNodes(valid)
                        THEN /\ ppc' = "returned" /\ planErr' = "nil"
                             /\ UNCHANGED <<nodeIdx, devIdx, hostSequence,
                                            replicasSequence, portBase>>
                        ELSE IF outcome /= "ok"
                        THEN /\ ppc' = "returned" /\ planErr' = outcome
                             /\ UNCHANGED <<nodeIdx, devIdx, hostSequence,
                                            replicasSequence, portBase>>
                        ELSE IF Len(valid) = 0 \/ Len(storage.Devices) = 0
                        THEN /\ ppc' = "returned" /\ planErr' = "nil"  \* nothing to range over
                             /\ UNCHANGED <<nodeIdx, devIdx, hostSequence,
                                            replicasSequence, portBase>>
                        ELSE /\ hostSequence' = 0
                             /\ nodeIdx' = 1
                             /\ portBase' = storage.Port
                             /\ replicasSequence' = 0
                             /\ devIdx' = 1
                             /\ ppc' = "device"
                             /\ UNCHANGED planErr
    /\ attempts' = <<>>
    /\ storeCalled' = (storeCalled \/ ~storage.UseSelectedNodes)  \* part_000:46
    /\ UNCHANGED appended
    /\ UNCHANGED <<opc, storage, conditions, invoked, startErr, runs>>
    /\ UNCHANGED <<jobVars, watchVars, loopVarPerIteration>>

\* part_000:110-120  one iteration begins: device is assigned, runPrepareJob
\* is called; the store now stands for the Job under this pair's name
P_Device ==
    /\ opc = "provisioning" /\ ppc = "device"
    /\ cells' = [c \in DOMAIN cells \cup {DeviceCell(nodeIdx, devIdx)} |->
                    IF c = DeviceCell(nodeIdx, devIdx)
                    THEN storage.Devices[devIdx] ELSE cells[c]]
    /\ Call("runPrepareJob", FALSE, FALSE)
    /\ store' \in JobObjects
    /\ ppc' = "prepare"
    /\ UNCHANGED <<validNodes, nodeIdx, devIdx, hostSequence, replicasSequence,
                   portBase, job2DeviceInfos, chunkserverConfigs, planErr,
                   appended, attempts>>
    /\ UNCHANGED <<watchVars, loopVarPerIteration, startVars>>

\* part_000:126-133
TaskRecord(n, d) ==
    [job      |-> JobName(validNodes[n], storage.Devices[d]),
     device   |-> DeviceCell(n, d),
     nodeName |-> validNodes[n]]

\* part_000:135-158
DeviceConfigRecord(n, d) ==
    LET name == ShortDeviceName(storage.Devices[d]) IN
    [Port                 |-> portBase,
     ResourceName         |-> DashJoin(AppName, validNodes[n], name),
     CurrentConfigMapName |-> DashJoin(ConfigMapNamePrefix, validNodes[n], name),
     NodeName             |-> validNodes[n],
     DeviceName           |-> storage.Devices[d],
     HostSequence         |-> hostSequence,
     ReplicasSequence     |-> replicasSequence,
     Replicas             |-> Len(storage.Devices)]

\* (replicasSequence++ made before the error check of part_000:121)
ReplicaAfterMut(ok, seq) == seq + 1

\* part_000:121-124, 161  replicasSequence++ is reached unless the submission failed
ReplicaAfter(ok, seq) == IF ok THEN seq + 1 ELSE seq

\* (part_000:160 without the increment)
PortAfterMut(ok, port) == port

\* part_000:121-124, 160  portBase++ is reached unless the submission failed
PortAfter(ok, port) == IF ok THEN port + 1 ELSE port

\* (part_000:123 returning the error instead)
OnSubmitFailureMut == "return"

\* part_000:123  continue
OnSubmitFailure == "continue"

\* part_000:120-164  runPrepareJob has returned: skip or record the pair,
\* then step the loops; no job name is in use until the next iteration
P_Record ==
    /\ opc = "provisioning" /\ ppc = "prepare"
    /\ jpc = "returned"
    /\ LET ok    == retErr = "nil"
           next  == PlanAdvance(nodeIdx, devIdx)
           abort == ~ok /\ OnSubmitFailure /= "continue" IN
       /\ attempts' = Append(attempts, [n |-> nodeIdx, d |-> devIdx, ok |-> ok])
       /\ IF ok
          THEN /\ job2DeviceInfos' = Append(job2DeviceInfos, TaskRecord(nodeIdx, devIdx))
               /\ chunkserverConfigs' =
                    Append(chunkserverConfigs, DeviceConfigRecord(nodeIdx, devIdx))
               /\ appended' = appended + 1
          ELSE UNCHANGED <<job2DeviceInfos, chunkserverConfigs, appended>>
       /\ nodeIdx' = next.n
       /\ devIdx' = next.d
       /\ IF next.newNode
          THEN /\ hostSequence' = hostSequence + 1
               /\ portBase' = storage.Port
               /\ replicasSequence' = 0
          ELSE /\ UNCHANGED hostSequence
               /\ portBase' = PortAfter(ok, portBase)
               /\ replicasSequence' = ReplicaAfter(ok, replicasSequence)
       /\ IF abort
          THEN ppc' = "returned" /\ planErr' = retErr
          ELSE IF next.n > Len(validNodes)
          THEN ppc' = "returned" /\ planErr' = "nil"
          ELSE ppc' = "device" /\ UNCHANGED planErr
    /\ UNCHANGED <<validNodes, cells>>
    /\ FrameGone
    /\ store' = Absent
    /\ UNCHANGED <<watchVars, loopVarPerIteration, startVars>>

----------------------------------------------------------------------------
(* Cluster.Start: the orchestrator                                         *)

StageOrder == <<"startProvisioningOverNodes", "checkJobStatus",
                "runCreatePoolJob physical_pool", "startChunkServers",
                "runCreatePoolJob logical_pool">>

\* (job.go:172 without the test of the device list)
SpecInvalidMut(st) ==
    \/ ~st.UseSelectedNodes /\ Len(st.Nodes) = 0
    \/ st.UseSelectedNodes /\ Len(st.SelectedNodes) = 0

\* job.go:172-178
SpecInvalid(st) ==
    \/ ~st.UseSelectedNodes /\ (Len(st.Nodes) = 0 \/ Len(st.Devices) = 0)
    \/ st.UseSelectedNodes /\ Len(st.SelectedNodes) = 0

\* job.go:173, 177  errors.New
ConfigurationError(st) ==
    IF ~st.UseSelectedNodes
    THEN "useSelectedNodes is set to false but no node specified"
    ELSE "useSelectedNodes is set to false but selectedNodes not be specified"

\* (an error check left out)
AfterStageMut(ok, next) == next

\* job.go:184-186, 200-203, 210-212, 218-220, 224-226  if err != nil { return ... }
AfterStage(ok, next) == IF ok THEN next ELSE "failed"

Stage(name, ok) == [stage |-> name, ok |-> ok]

\* job.go:169-183  a Cluster is built with a spec and started
S_StartWith(specs) ==
    /\ opc = "idle"
    /\ runs < MaxRuns
    /\ runs' = runs + 1
    /\ \E st \in specs :
        /\ storage' = st
        /\ IF SpecInvalid(st)
           THEN /\ opc' = "failed"
                /\ startErr' = ConfigurationError(st)
                /\ UNCHANGED ppc
           ELSE /\ opc' = "provisioning"
                /\ startErr' = "none"
                /\ ppc' = "begin"
    /\ conditions' = <<>>
    /\ invoked' = <<>>
    /\ appended' = 0
    /\ attempts' = <<>>
    /\ planErr' = "none"
    /\ storeCalled' = FALSE
    /\ UNCHANGED <<validNodes, nodeIdx, devIdx, hostSequence, replicasSequence,
                   portBase, job2DeviceInfos, chunkserverConfigs, cells>>
    /\ UNCHANGED <<jobVars, watchVars, loopVarPerIteration>>

S_Start == S_StartWith(Storages)

\* job.go:183-196  the planner has returned; on success the watcher is started
\* on a fresh channel, ticker and context
S_Provisioned ==
    /\ opc = "provisioning" /\ ppc = "returned"
    /\ ppc' = "idle"
    /\ LET ok == planErr = "nil" IN
       /\ invoked' = Append(invoked, Stage(StageOrder[1], ok))
       /\ opc' = AfterStage(ok, "await")
       /\ IF opc' = "await"
          THEN /\ conditions' = Append(conditions, "FormatingChunkfilePool")
               /\ wpc' = "select"
               /\ chn' = <<>>
               /\ ctxDone' = FALSE
               /\ tick' = FALSE
               /\ sent' = <<>>
               /\ store' \in JobObjects
               /\ storeCalled' = TRUE                       \* job.go:189
               /\ UNCHANGED <<startErr, wval>>
          ELSE /\ startErr' = "failed to provision chunkfilepool"
               /\ UNCHANGED <<conditions, watchVars, store, storeCalled>>
    /\ UNCHANGED <<storage, runs>>
    /\ UNCHANGED <<validNodes, nodeIdx, devIdx, hostSequence, replicasSequence,
                   portBase, job2DeviceInfos, chunkserverConfigs, cells, planErr,
                   appended, attempts>>
    /\ UNCHANGED <<fn, deleteIfFound, wait, jpc, lookupErr, existingJob, i,
                   polls, sleeps, elapsed, lastPoll, deleteErr, issued, retErr,
                   retJob, loopVarPerIteration>>
    /\ UNCHANGED createErr

\* job.go:199-204  flag := <-chn
S_Receive ==
    /\ opc = "await"
    /\ chn /= <<>>
    /\ chn' = Tail(chn)
    /\ LET flag == Head(chn) IN
       /\ invoked' = Append(invoked, Stage(StageOrder[2], flag))
       /\ opc' = AfterStage(flag, "physical_pool")
       /\ IF opc' = "failed"
          THEN /\ startErr' = "Format job is not completed in 24 hours"
               /\ UNCHANGED conditions
          ELSE /\ conditions' = Append(conditions, "FormatChunkfilePool")
               /\ UNCHANGED startErr
    /\ UNCHANGED <<storage, runs, storeCalled>>
    /\ UNCHANGED <<wpc, ctxDone, tick, wval, sent>>
    /\ UNCHANGED <<jobVars, loopVarPerIteration, planVars>>

\* job.go:209-227  one of the stages after the barrier: its collaborator
\* runs and succeeds or fails
S_Stage(at, k, next) ==
    /\ opc = at
    /\ \E ok \in BOOLEAN :
        /\ invoked' = Append(invoked, Stage(StageOrder[k], ok))
        /\ opc' = AfterStage(ok, next)
        /\ IF opc' = "failed"
           THEN /\ startErr' = "failed at " \o at
                /\ UNCHANGED conditions
           ELSE IF opc' = "done"
           THEN /\ startErr' = "nil"                      \* job.go:229-231
                /\ conditions' = Append(conditions, "ChunkServerClusterCreated")
           ELSE UNCHANGED <<startErr, conditions>>
    /\ UNCHANGED <<storage, runs, storeCalled>>
    /\ UNCHANGED <<jobVars, watchVars, loopVarPerIteration, planVars>>

\* Start has returned (deferred canf() and Stop()) and its Cluster, channel,
\* ticker and context are gone; the package-level slices stay
S_Return ==
    /\ opc \in {"failed", "done"}
    /\ wpc \in {"notstarted", "done"}
    /\ opc' = "idle"
    /\ storage' = NoStorage
    /\ conditions' = <<>>
    /\ invoked' = <<>>
    /\ startErr' = "none"
    /\ wpc' = "notstarted" /\ chn' = <<>> /\ ctxDone' = FALSE /\ tick' = FALSE
    /\ wval' = FALSE /\ sent' = <<>>
    /\ ppc' = "idle" /\ validNodes' = <<>> /\ nodeIdx' = 0 /\ devIdx' = 0
    /\ hostSequence' = 0 /\ replicasSequence' = 0 /\ portBase' = 0
    /\ planErr' = "none" /\ appended' = 0 /\ attempts' = <<>>
    /\ storeCalled' = FALSE
    /\ store' = Absent
    /\ UNCHANGED <<job2DeviceInfos, chunkserverConfigs, cells, runs>>
    /\ UNCHANGED <<fn, deleteIfFound, wait, jpc, lookupErr, existingJob, i,
                   polls, sleeps, elapsed, lastPoll, deleteErr, issued, retErr,
                   retJob, loopVarPerIteration>>
    /\ UNCHANGED createErr

----------------------------------------------------------------------------
(* Specifications                                                          *)

JobVarsInit ==
    /\ fn = "none"
    /\ deleteIfFound = FALSE
    /\ wait = FALSE
    /\ jpc = "idle"
    /\ lookupErr = "none"
    /\ existingJob = Absent
    /\ i = 0 /\ polls = 0 /\ sleeps = 0 /\ elapsed = 0
    /\ lastPoll = "none"
    /\ deleteErr = "none"
    /\ issued = <<>>
    /\ retErr = "none"
    /\ retJob = Absent
    /\ createErr = "none"

\* process start: no Start call yet, the global slices are nil
ProcessInit ==
    /\ wpc = "notstarted"
    /\ chn = <<>>
    /\ ctxDone = FALSE
    /\ tick = FALSE
    /\ wval = FALSE
    /\ sent = <<>>
    /\ ppc = "idle"
    /\ validNodes = <<>>
    /\ nodeIdx = 0 /\ devIdx = 0
    /\ hostSequence = 0 /\ replicasSequence = 0 /\ portBase = 0
    /\ job2DeviceInfos = <<>>
    /\ chunkserverConfigs = <<>>
    /\ cells = <<>>
    /\ planErr = "none"
    /\ appended = 0
    /\ attempts = <<>>
    /\ storeCalled = FALSE
    /\ opc = "idle"
    /\ storage = NoStorage
    /\ conditions = <<>>
    /\ invoked = <<>>
    /\ startErr = "none"
    /\ runs = 0

\* the k8sutil functions called on one job name
JobInit ==
    /\ store \in {Absent, NewJob}
    /\ JobVarsInit
    /\ ProcessInit
    /\ loopVarPerIteration = FALSE

JobNext ==
    \/ /\ \/ \E force \in BOOLEAN : Call("RunReplaceableJob", force, FALSE)
          \/ \E w \in BOOLEAN : Call("DeleteBatchJob", FALSE, w)
          \/ Call("runPrepareJob", FALSE, FALSE)
       /\ UNCHANGED store
       /\ UNCHANGED <<watchVars, loopVarPerIteration, planVars, startVars>>
    \/ /\ \/ RRJ_Get
          \/ DBJ_Delete
          \/ DBJ_Poll
          \/ DBJ_Sleep
          \/ RRJ_Create
          \/ RPJ_Get
          \/ RPJ_Create
          \/ CallDone
          \/ ClusterStep
       /\ UNCHANGED <<watchVars, loopVarPerIteration, planVars, startVars>>

SpecJob == JobInit /\ [][JobNext]_vars

\* the operator process: Start, called again and again
Init ==
    /\ store = Absent
    /\ JobVarsInit
    /\ ProcessInit
    /\ loopVarPerIteration \in BOOLEAN

\* the steps of a started Cluster and of its environment
Running ==
    \/ P_Begin
    \/ P_Device
    \/ /\ opc = "provisioning"
       /\ RPJ_Get \/ RPJ_Create
       /\ storeCalled' = TRUE
       /\ UNCHANGED <<opc, storage, conditions, invoked, startErr, runs>>
       /\ UNCHANGED <<watchVars, loopVarPerIteration, planVars>>
    \/ P_Record
    \/ S_Provisioned
    \/ W_Tick
    \/ W_Done
    \/ W_Send
    \/ Tick
    \/ DeadlineFires
    \/ S_Receive
    \/ S_Stage("physical_pool", 3, "services")
    \/ S_Stage("services", 4, "logical_pool")
    \/ S_Stage("logical_pool", 5, "done")
    \/ S_Return
    \/ /\ opc \in {"provisioning", "await"}
       /\ ClusterStep
       /\ UNCHANGED <<watchVars, loopVarPerIteration, planVars, startVars>>

Next == S_Start \/ Running

Spec == Init /\ [][Next]_vars

BarrierNext == S_StartWith(BarrierStorages) \/ Running

\* the watcher goroutine and the orchestrator are scheduled, the ticker keeps
\* ticking and the deadline of the context passes
LiveSpec ==
    /\ Init /\ [][BarrierNext]_vars
    /\ WF_vars(Tick)
    /\ WF_vars(DeadlineFires)
    /\ WF_vars(W_Tick)
    /\ WF_vars(W_Done)
    /\ WF_vars(W_Send)
    /\ WF_vars(S_Receive)

----------------------------------------------------------------------------
(* Replaceable Task Executor and Bounded Deletion                          *)

\* C2: a call (RunReplaceableJob without deleteIfFound, or runPrepareJob)
\* whose lookup finds the job of that name with Status.Active > 0 ends at
\* that lookup: the stored job is left as it is, no delete and no create is
\* sent, the error is nil and runPrepareJob hands back the job it found.
C2_ActiveIsNoOp ==
    [][ ( /\ jpc \in {"rrj_get", "rpj_get"}
          /\ store.exists /\ store.active > 0
          /\ ~deleteIfFound
          /\ lookupErr' = "nil" )
        => ( /\ jpc' = "returned"
             /\ store' = store
             /\ issued' = <<>>
             /\ retErr' = "nil"
             /\ (fn = "runPrepareJob" => retJob' = store) ) ]_vars

C2_Witness ==
    /\ fn = "RunReplaceableJob" /\ ~deleteIfFound
    /\ jpc = "returned"
    /\ lookupErr = "nil" /\ existingJob.active > 0
    /\ store = existingJob
    /\ issued = <<>> /\ retErr = "nil"

\* C3 as stated: a forced RunReplaceableJob has sent exactly delete, create
\* when it returns, and exactly create when the lookup reported not found.
C3_ForcedAlwaysDeleteCreate ==
    (fn = "RunReplaceableJob" /\ deleteIfFound /\ jpc = "returned")
    => issued = IF lookupErr = "NotFound" THEN <<"create">>
                                           ELSE <<"delete", "create">>

\* C3 amended: a forced RunReplaceableJob whose lookup found the job sends
\* exactly one delete and then exactly one create, unless DeleteBatchJob
\* returns an error: then no create is sent and the wrapped error is
\* returned. When the lookup reports not found or fails otherwise, it sends
\* one create and no delete.
C3_ForcedDeleteThenCreate ==
    (fn = "RunReplaceableJob" /\ deleteIfFound /\ jpc = "returned")
    => IF lookupErr = "nil"
       THEN \/ issued = <<"delete", "create">> /\ deleteErr \in {"nil", "NotFound"}
            \/ /\ issued = <<"delete">>
               /\ deleteErr = "Other"
               /\ retErr = "failed to remove job"
       ELSE issued = <<"create">>

C3_Witness ==
    /\ fn = "RunReplaceableJob" /\ deleteIfFound /\ jpc = "returned"
    /\ lookupErr = "nil" /\ existingJob.active > 0
    /\ issued = <<"delete", "create">>
    /\ retErr = "nil"

\* C4: the step by which RunReplaceableJob returns nil leaves a Job object
\* under the name in the store (the store holds at most one per name).
C4_SuccessLeavesOneJob ==
    [][ ( /\ fn = "RunReplaceableJob"
          /\ jpc /= "returned" /\ jpc' = "returned"
          /\ retErr' = "nil" )
        => store'.exists ]_vars

\* the wait budget ran out, the teardown ended afterwards, the create went through
C4_Witness ==
    /\ fn = "RunReplaceableJob" /\ jpc = "returned" /\ retErr = "nil"
    /\ issued = <<"delete", "create">>
    /\ polls = 30 /\ lastPoll = "nil"
    /\ store.exists

\* C5: DeleteBatchJob with wait, whose delete was accepted and none of whose
\* polls reported not found, has made exactly 30 polls when it returns, and
\* returns nil.
C5_GivesUpAfter30Polls ==
    ( /\ fn = "DeleteBatchJob" /\ wait /\ jpc = "returned"
      /\ deleteErr = "nil"
      /\ lastPoll /= "NotFound" )
    => (polls = 30 /\ retErr = "nil")

C5_Witness ==
    /\ fn = "DeleteBatchJob" /\ wait /\ jpc = "returned"
    /\ deleteErr = "nil" /\ lastPoll = "nil"
    /\ polls = 30 /\ retErr = "nil"
    /\ store.exists

\* C6: DeleteBatchJob with wait, whose delete was accepted, returns only on
\* a poll that reports not found or when the 30 polls are used up; when it
\* returns on not found after k polls that did not, it has slept k times,
\* 3 seconds each, and returns nil.
C6_ReturnsOnNotFoundAfterKPolls ==
    ( /\ fn = "DeleteBatchJob" /\ wait /\ jpc = "returned"
      /\ deleteErr = "nil" )
    => /\ lastPoll = "NotFound" \/ polls = 30
       /\ lastPoll = "NotFound" =>
            /\ polls - 1 < 30
            /\ sleeps = polls - 1
            /\ elapsed = 3 * (polls - 1)
            /\ retErr = "nil"

C6_Witness ==
    /\ fn = "DeleteBatchJob" /\ wait /\ jpc = "returned"
    /\ deleteErr = "nil" /\ lastPoll = "NotFound"
    /\ polls = 3 /\ sleeps = 2 /\ elapsed = 6
    /\ retErr = "nil" /\ ~store.exists

\* C16: a RunReplaceableJob whose delete call failed (an error other than not
\* found) returns the wrapped error and has sent no create; whenever it has
\* sent a create, it returns what the create returned, error or nil.
C16_DeleteAndCreateErrorsReturned ==
    (fn = "RunReplaceableJob" /\ jpc = "returned")
    => /\ deleteErr = "Other" =>
            /\ issued = <<"delete">>
            /\ createErr = "none"
            /\ retErr = "failed to remove job"
       /\ createErr /= "none" =>
            /\ issued[Len(issued)] = "create"
            /\ retErr = createErr

C16_Witness ==
    /\ fn = "RunReplaceableJob" /\ jpc = "returned"
    /\ lookupErr = "nil" /\ deleteErr = "Other"
    /\ issued = <<"delete">>
    /\ retErr = "failed to remove job"
    /\ store.exists /\ ~store.terminating

\* C17: when the lookup of RunReplaceableJob or runPrepareJob fails with an
\* error other than not found, that error is not returned: the call sends no
\* delete and exactly one create, and returns what the create returned.
C17_LookupErrorGoesOnToCreate ==
    ( /\ fn \in {"RunReplaceableJob", "runPrepareJob"}
      /\ jpc = "returned"
      /\ lookupErr = "Other" )
    => /\ issued = <<"create">>
       /\ deleteErr = "none"
       /\ createErr \in {"nil", "AlreadyExists", "Other"}
       /\ retErr = createErr

\* the lookup failed although the job exists: the create is refused
C17_Witness ==
    /\ fn = "RunReplaceableJob" /\ deleteIfFound /\ jpc = "returned"
    /\ lookupErr = "Other"
    /\ issued = <<"create">>
    /\ retErr = "AlreadyExists"
    /\ store.exists

----------------------------------------------------------------------------
(* Completion Barrier Watcher, planner lists, orchestrator                 *)

\* C1: the watcher writes at most one value to chn, and once it has
\* returned it has written exactly one.
C1_ExactlyOneValue ==
    /\ Len(sent) <= 1
    /\ wpc = "done" => Len(sent) = 1

C1_Witness ==
    /\ wpc = "done"
    /\ sent = <<TRUE>>
    /\ ctxDone

\* C7: when the planner returns nil (nodes and devices listed), both lists
\* have the same length, at most N = valid nodes x devices, and the k-th
\* TaskRecord and the k-th DeviceConfigRecord name the same node and the
\* same device (the TaskRecord's device is what its pointer leads to).
C7_RecordsPairUp ==
    ( /\ opc = "provisioning" /\ ppc = "returned"
      /\ ~storage.UseSelectedNodes /\ planErr = "nil" )
    => /\ Len(job2DeviceInfos) = Len(chunkserverConfigs)
       /\ Len(job2DeviceInfos) <= Len(validNodes) * Len(storage.Devices)
       /\ \A k \in 1..Len(job2DeviceInfos) :
            /\ job2DeviceInfos[k].nodeName = chunkserverConfigs[k].NodeName
            /\ cells[job2DeviceInfos[k].device] = chunkserverConfigs[k].DeviceName

AfterPlanning == {"await", "physical_pool", "services", "logical_pool", "done"}

\* C8: in the stages after planning both lists hold exactly the records the
\* planner appended in this Start call, in either node-selection mode.
C8_OnlyThisRunsRecords ==
    opc \in AfterPlanning
    => /\ Len(job2DeviceInfos) = appended
       /\ Len(chunkserverConfigs) = appended

StagePosition ==
    [await |-> 1, physical_pool |-> 2, services |-> 3, logical_pool |-> 4, done |-> 5]

Succeeded(k) == \A j \in 1..k : invoked[j].ok

\* C9: the collaborators are invoked in the order of StageOrder, each only
\* after all earlier ones succeeded; a stage is entered with exactly the
\* earlier stages done; the first failure (or an invalid spec) ends Start
\* with an error and nothing more invoked; the condition
\* ChunkServerClusterCreated is set only after all five succeeded.
C9_StagesInStrictOrder ==
    /\ Len(invoked) <= Len(StageOrder)
    /\ \A k \in 1..Len(invoked) : invoked[k].stage = StageOrder[k]
    /\ Succeeded(Len(invoked) - 1)
    /\ opc \in DOMAIN StagePosition =>
            Len(invoked) = StagePosition[opc] /\ Succeeded(Len(invoked))
    /\ opc = "provisioning" => invoked = <<>>
    /\ (invoked /= <<>> /\ ~invoked[Len(invoked)].ok) => opc = "failed"
    /\ opc = "failed" =>
            /\ startErr \notin {"nil", "none"}
            /\ invoked = <<>> \/ ~invoked[Len(invoked)].ok
    /\ (\E k \in 1..Len(conditions) : conditions[k] = "ChunkServerClusterCreated") =>
            /\ opc = "done" /\ startErr = "nil"
            /\ Len(invoked) = Len(StageOrder) /\ Succeeded(Len(invoked))
    /\ opc = "done" =>
            conditions = <<"FormatingChunkfilePool", "FormatChunkfilePool",
                           "ChunkServerClusterCreated">>

C9_Witness ==
    /\ opc = "failed"
    /\ Len(invoked) = 4 /\ Succeeded(3) /\ ~invoked[4].ok
    /\ conditions = <<"FormatingChunkfilePool", "FormatChunkfilePool">>

\* C10: once ctx is done, the watcher waiting in its select goes on to emit
\* false, never true.
C10_DeadlineForcesFalse ==
    [][ (wpc = "select" /\ ctxDone /\ wpc' /= "select") => wval' = FALSE ]_vars

\* C11: a runPrepareJob call of the planner whose lookup found the job of
\* that name no longer active (finished or failed) has deleted it and then
\* created it anew when it returns, and returns nil, so that the pair is
\* recorded.
C11_FinishedTaskIsReplaced ==
    ( /\ opc = "provisioning"
      /\ fn = "runPrepareJob" /\ jpc = "returned"
      /\ lookupErr = "nil" /\ existingJob.active = 0 )
    => /\ issued = <<"delete", "create">>
       /\ retErr = "nil"

----------------------------------------------------------------------------
(* Validation, sequence numbers, names, fan-out                            *)

C13_InvalidSpecFailsBeforeAnyCall ==
    [][ ( /\ opc' /= "idle"
          /\ \/ ~storage'.UseSelectedNodes /\ Len(storage'.Nodes) = 0
             \/ ~storage'.UseSelectedNodes /\ Len(storage'.Devices) = 0
             \/ storage'.UseSelectedNodes /\ Len(storage'.SelectedNodes) = 0 )
        => /\ opc = "idle" /\ opc' = "failed"
           /\ startErr' = ConfigurationError(storage')
           /\ ~storeCalled'
           /\ jpc' = "idle" /\ issued' = <<>>
           /\ ppc' = "idle" /\ wpc' = "notstarted"
           /\ conditions' = <<>> /\ invoked' = <<>>
           /\ UNCHANGED <<job2DeviceInfos, chunkserverConfigs, store>> ]_vars

\* the second Start has nodes but no device; the first one's records stay
C13_Witness ==
    /\ opc = "failed"
    /\ ~storage.UseSelectedNodes
    /\ Len(storage.Nodes) > 0 /\ Len(storage.Devices) = 0
    /\ startErr = "useSelectedNodes is set to false but no node specified"
    /\ ~storeCalled
    /\ Len(chunkserverConfigs) > 0

\* the planner of a Start with nodes and devices listed is past its setup
Planning ==
    /\ opc = "provisioning"
    /\ ~storage.UseSelectedNodes
    /\ ppc \in {"device", "prepare", "returned"}

NodePosition(name) == CHOOSE n \in 1..Len(validNodes) : validNodes[n] = name

DevicePosition(name) == CHOOSE d \in 1..Len(storage.Devices) : storage.Devices[d] = name

\* records of the same node that precede the k-th record
RecordedBefore(k) ==
    Cardinality({ j \in 1..(k - 1) :
                    chunkserverConfigs[j].NodeName = chunkserverConfigs[k].NodeName })

\* host sequence numbers are the nodes' zero-based positions and grow from
\* node to node, replica sequence numbers grow within a node, ports of one
\* node differ
SequencesIncrease ==
    LET cs == chunkserverConfigs IN
    /\ \A k \in 1..Len(cs) :
        /\ cs[k].HostSequence = NodePosition(cs[k].NodeName) - 1
        /\ RecordedBefore(k) = 0 => cs[k].ReplicasSequence = 0
    /\ \A k \in 1..Len(cs), l \in 1..Len(cs) :
        k < l => IF cs[k].NodeName = cs[l].NodeName
                 THEN /\ cs[k].HostSequence = cs[l].HostSequence
                      /\ cs[k].ReplicasSequence < cs[l].ReplicasSequence
                      /\ cs[k].Port /= cs[l].Port
                 ELSE cs[k].HostSequence < cs[l].HostSequence

\* C14 as stated: sequence numbers as above, and each record's port is the
\* base port plus the position of its device in the device list.
C14_PortIsBasePlusDeviceIndex ==
    Planning =>
        /\ SequencesIncrease
        /\ \A k \in 1..Len(chunkserverConfigs) :
            chunkserverConfigs[k].Port =
                storage.Port + (DevicePosition(chunkserverConfigs[k].DeviceName) - 1)

\* C14 amended: sequence numbers as above, and each record's port is the
\* base port plus its replica sequence number, which is the number of
\* records made before it for the same node.
C14_PortIsBasePlusRecordedBefore ==
    Planning =>
        /\ SequencesIncrease
        /\ \A k \in 1..Len(chunkserverConfigs) :
            /\ chunkserverConfigs[k].ReplicasSequence = RecordedBefore(k)
            /\ chunkserverConfigs[k].Port = storage.Port + RecordedBefore(k)

\* the first device failed, the second one got the base port; both recorded
\* on the next node
C14_Witness ==
    /\ Planning /\ ppc = "returned"
    /\ Len(attempts) = 4
    /\ ~attempts[1].ok /\ attempts[2].ok /\ attempts[3].ok /\ attempts[4].ok
    /\ chunkserverConfigs[1].Port = storage.Port
    /\ chunkserverConfigs[3].Port = storage.Port + 1

\* C15: two different (valid node, device) pairs of a planner run never get
\* the same job name, the same ResourceName or the same config map name.
C15_NamesUniquePerPair ==
    Planning =>
        \A n1 \in 1..Len(validNodes), n2 \in 1..Len(validNodes),
           d1 \in 1..Len(storage.Devices), d2 \in 1..Len(storage.Devices) :
            <<validNodes[n1], storage.Devices[d1]>> /= <<validNodes[n2], storage.Devices[d2]>>
            => LET s1 == ShortDeviceName(storage.Devices[d1])
                   s2 == ShortDeviceName(storage.Devices[d2]) IN
               /\ JobName(validNodes[n1], storage.Devices[d1])
                    /= JobName(validNodes[n2], storage.Devices[d2])
               /\ DashJoin(AppName, validNodes[n1], s1)
                    /= DashJoin(AppName, validNodes[n2], s2)
               /\ DashJoin(ConfigMapNamePrefix, validNodes[n1], s1)
                    /= DashJoin(ConfigMapNamePrefix, validNodes[n2], s2)

\* the (node, device) pairs of the attempts that succeeded, in order
RECURSIVE Successes(_)
Successes(atts) ==
    IF atts = <<>> THEN <<>>
    ELSE (IF Head(atts).ok
          THEN << <<validNodes[Head(atts).n], storage.Devices[Head(atts).d]>> >>
          ELSE <<>>) \o Successes(Tail(atts))

\* C18: the planner calls runPrepareJob for the pairs in the order of the
\* valid nodes and, within a node, of the devices; once it has entered the
\* loops it returns nil, and only after all pairs, whatever failed; the
\* DeviceConfigRecords are those of the pairs that succeeded, in that order,
\* and their (HostSequence, ReplicasSequence) keys grow strictly.
C18_FailureDoesNotAbortFanOut ==
    Planning =>
        LET cs == chunkserverConfigs
            D  == Len(storage.Devices) IN
        /\ \A k \in 1..Len(attempts) :
            /\ attempts[k].n = ((k - 1) \div D) + 1
            /\ attempts[k].d = ((k - 1) % D) + 1
        /\ [k \in 1..Len(cs) |-> <<cs[k].NodeName, cs[k].DeviceName>>] = Successes(attempts)
        /\ \A k \in 1..(Len(cs) - 1) :
            \/ cs[k].HostSequence < cs[k + 1].HostSequence
            \/ /\ cs[k].HostSequence = cs[k + 1].HostSequence
               /\ cs[k].ReplicasSequence < cs[k + 1].ReplicasSequence
        /\ (ppc = "returned" /\ attempts /= <<>>) =>
            /\ planErr = "nil"
            /\ Len(attempts) = Len(validNodes) * D

C18_Witness ==
    /\ Planning /\ ppc = "returned" /\ planErr = "nil"
    /\ Len(attempts) = 4
    /\ attempts[1].ok /\ ~attempts[2].ok /\ attempts[3].ok /\ attempts[4].ok
    /\ Len(chunkserverConfigs) = 3

\* C19: the watcher waiting in its select eventually has sent and returned,
\* and a Start waiting at the receive eventually leaves it: on true for the
\* physical pool, on false with the error.
C19_BarrierEnds ==
    /\ (wpc = "select") ~> (wpc = "done")
    /\ (opc = "await") ~> (opc \in {"physical_pool", "failed"})
    /\ [][ (opc = "await" /\ opc' /= "await")
           => \/ opc' = "physical_pool" /\ Head(chn)
              \/ /\ opc' = "failed" /\ ~Head(chn)
                 /\ startErr' = "Format job is not completed in 24 hours" ]_vars

\* the job never succeeded; the deadline ended the wait
C19_Witness ==
    /\ opc = "failed" /\ wpc = "done"
    /\ ctxDone /\ sent = <<FALSE>>
    /\ startErr = "Format job is not completed in 24 hours"
    /\ store.exists /\ store.succeeded = 0

\* C20: whenever the watcher is at a send, chn has room: it has sent nothing
\* before, and chn never holds more than its capacity.
C20_SendNeverBlocks ==
    /\ Len(chn) <= ChanCap
    /\ wpc \in {"send_tick", "send_done"} => (Len(chn) < ChanCap /\ sent = <<>>)

\* the watcher has sent and returned while Start has not yet received
C20_Witness ==
    /\ wpc = "done"
    /\ opc = "await"
    /\ chn = <<TRUE>>

\* the positions in attempts of the calls that succeeded, in order
RECURSIVE SuccessPositions(_)
SuccessPositions(k) ==
    IF k = 0 THEN <<>>
    ELSE SuccessPositions(k - 1) \o (IF attempts[k].ok THEN <<k>> ELSE <<>>)

\* successful calls for the node of the a-th call that precede it
SuccessesBefore(a) ==
    Cardinality({ j \in 1..(a - 1) : attempts[j].ok /\ attempts[j].n = attempts[a].n })

\* C21: the k-th DeviceConfigRecord belongs to the k-th successful
\* runPrepareJob call; its ReplicasSequence and its Port minus the base port
\* are the number of successful calls made before it for the same node,
\* failed ones not counted; its HostSequence is the zero-based position of
\* its node among the valid nodes, nodes without any record counted.
C21_SequencesCountSuccessesHostsCountNodes ==
    Planning =>
        LET cs  == chunkserverConfigs
            pos == SuccessPositions(Len(attempts)) IN
        /\ Len(cs) = Len(pos)
        /\ \A k \in 1..Len(cs) :
            LET a == pos[k] IN
            /\ cs[k].NodeName = validNodes[attempts[a].n]
            /\ cs[k].DeviceName = storage.Devices[attempts[a].d]
            /\ cs[k].ReplicasSequence = SuccessesBefore(a)
            /\ cs[k].Port - storage.Port = SuccessesBefore(a)
            /\ cs[k].HostSequence = attempts[a].n - 1

\* every call for the first node failed, the first device of the second
\* node too: the only record has HostSequence 1, ReplicasSequence 0 and the
\* base port
C21_Witness ==
    /\ Planning /\ ppc = "returned"
    /\ Len(attempts) = 4
    /\ ~attempts[1].ok /\ ~attempts[2].ok /\ ~attempts[3].ok /\ attempts[4].ok
    /\ Len(chunkserverConfigs) = 1
    /\ chunkserverConfigs[1].HostSequence = 1
    /\ chunkserverConfigs[1].ReplicasSequence = 0
    /\ chunkserverConfigs[1].Port = storage.Port

====
